---- MODULE Spec2Model ----
(***************************************************************************)
(* Transmitter station of the water height measurement (src/src/main.cpp): *)
(* setup(), loop(), checkWaterHeight(), warnAll(), sendingSMS() and        *)
(* sendDataToServer(), with the millisecond counter and the RTC as time.   *)
(***************************************************************************)
EXTENDS Integers, Sequences, FiniteSets, TLC

(* ------------------------- program constants --------------------------- *)
CRIT_DIST_1 == 322
CRIT_DIST_2 == 332
CRIT_DIST_3 == 342
SIZE_OF_ALLOWED_NUMBERS == 4
MAX_DIST == 400
MIN_DIST == 0
INTERVAL == 1200000
DIST_OVER_NULL == 402
\* DallasTemperature's sentinel for a probe that does not answer
DEVICE_DISCONNECTED_C == -127
\* number of pings averaged per cycle, and the delay after each ping
PING_COUNT == 100
PING_DELAY == 100
\* delay(20000) of setup(), delay(500) closing loop(), delay(10000) between
\* the broadcast and the upload of a transition
SETUP_DELAY == 20000
LOOP_DELAY == 500
SETTLE_DELAY == 10000
\* the minute test of the periodic scheduler: now.minute() % 2
PERIOD == 2
\* the message codes of createMessage
ALERT1 == 1
ALERT2 == 2
ALERT3 == 3
CLEAR1 == 4
CLEAR2 == 5
CLEAR3 == 6
SENSOR_FAULT == 7
CLOCK_FAULT == 8

(* ------------------------------ bounds --------------------------------- *)
\* grid of the millisecond counter at the end of a step: the delays of the
\* code are lower bounds of the elapsed time, the rest is I/O time
Tick == 12500
\* a run is followed for MaxTicks ticks while the last valid reading (or
\* the start) lies within the first EarlyTicks ticks, else for ShortTicks
\* ticks, and an invalid run for RunTicks ticks after the last valid reading
MaxTicks == 104
ShortTicks == 40
EarlyTicks == 8
RunTicks == 4
\* temperature of the lake in degree Celsius when the probe answers
LakeTemp == 18
\* consecutive valid cycles at one level are counted up to SteadyCap
SteadyCap == 4

MaxMillis == MaxTicks * Tick
ShortMillis == ShortTicks * Tick
EarlyMillis == EarlyTicks * Tick
RunMillis == RunTicks * Tick
\* pings (cm) of the cycles: all PING_COUNT pings of a cycle return the same
\* value; 0 is NewPing's "no echo"
PingValues == {0, 60, 61, 70, 71, 80, 81, 327, 328, 400}
\* what the RTC shows (ms into the hour) when millis() is 0
RtcStarts == {0, 50000, 60000, 3540000}

(* ------------------------------ helpers -------------------------------- *)
\* int of the AVR target: 16 bit two's complement
ToInt16(x) == ((x + 32768) % 65536) - 32768

\* C integer division truncates toward zero
CDiv(a, b) == IF a >= 0 THEN a \div b ELSE -((-a) \div b)

RoundUp(t) == ((t + Tick - 1) \div Tick) * Tick

RECURSIVE SumPings(_, _, _)
\* rawMessuredHeight = rawMessuredHeight + sonar.ping_cm(), PING_COUNT times
SumPings(ping, i, acc) ==
  IF i = PING_COUNT THEN acc
  ELSE LET next == ToInt16(acc + ping)
       \* the sum is evaluated before the next addition
       IN IF next \in Int THEN SumPings(ping, i + 1, next) ELSE next

\* lines 349-354: the averaged distance of a cycle
AverageDistance(ping) == CDiv(SumPings(ping, 0, 0), PING_COUNT)

calcWaterHeigth(raw) == DIST_OVER_NULL - raw

\* the readings of a cycle: averaged distance and probe temperature
Readings ==
  { [ping |-> p, raw |-> AverageDistance(p), temp |-> LakeTemp] :
      p \in PingValues }
  \cup { [ping |-> 60, raw |-> AverageDistance(60),
          temp |-> DEVICE_DISCONNECTED_C] }

\* the validity test with the closed range: >= and <= for > and <
SensorOkClosed(raw, temp) ==
  raw >= MIN_DIST /\ raw <= MAX_DIST /\ temp # DEVICE_DISCONNECTED_C

\* line 368: the validity test of a cycle
SensorOk(raw, temp) ==
  raw > MIN_DIST /\ raw < MAX_DIST /\ temp # DEVICE_DISCONNECTED_C

(* elapsed times, from the delays of the code *)
SmsMs == 1500 + 1000
WarnAllMs == SIZE_OF_ALLOWED_NUMBERS * (SmsMs + 1000)
GprsMs == 500 + 500 + 3000 + 2000
HttpMs == 500 + 500 + 500
\* from the start of sendDataToServer to AT+HTTPACTION
UploadAtMs == GprsMs + HttpMs + 500
UploadMs == UploadAtMs + 30000 + (500 + 500) + 500
PingPhaseMs == PING_COUNT * PING_DELAY

\* sendingSMS(allowedNumbers[i-1], code): one outbound message
sendingSMS(i, code) == <<i, code>>

\* warnAll with the loop bound one short: the last number is skipped
warnAllShort(code) ==
  [i \in 1..(SIZE_OF_ALLOWED_NUMBERS - 1) |-> sendingSMS(i, code)]

\* warnAll: for (i = 0; i < SIZE_OF_ALLOWED_NUMBERS; i++) sendingSMS(...)
warnAll(code) == [i \in 1..SIZE_OF_ALLOWED_NUMBERS |-> sendingSMS(i, code)]

\* checkWaterHeight with "if" for "else if" after the first branch: the
\* rest of the chain runs although Alert3 fired
checkWaterHeightNoElse(h, w1, w2, w3) ==
  LET first == h >= CRIT_DIST_3 /\ ~w3
      v3 == w3 \/ first
      rest ==
        IF h >= CRIT_DIST_2 /\ ~w2 THEN
          [fired |-> <<ALERT2>>, w1 |-> w1, w2 |-> TRUE, w3 |-> v3]
        ELSE IF h >= CRIT_DIST_1 /\ ~w1 THEN
          [fired |-> <<ALERT1>>, w1 |-> TRUE, w2 |-> w2, w3 |-> v3]
        ELSE IF h < CRIT_DIST_3 /\ v3 THEN
          [fired |-> <<CLEAR3>>, w1 |-> w1, w2 |-> w2, w3 |-> FALSE]
        ELSE IF h < CRIT_DIST_2 /\ w2 THEN
          [fired |-> <<CLEAR2>>, w1 |-> w1, w2 |-> FALSE, w3 |-> v3]
        ELSE IF h < CRIT_DIST_1 /\ w1 THEN
          [fired |-> <<CLEAR1>>, w1 |-> FALSE, w2 |-> w2, w3 |-> v3]
        ELSE
          [fired |-> <<>>, w1 |-> w1, w2 |-> w2, w3 |-> v3]
  IN [rest EXCEPT !.fired = (IF first THEN <<ALERT3>> ELSE <<>>) \o @]

\* checkWaterHeight with the flag test missing in the Clear1 branch
checkWaterHeightClearUnguarded(h, w1, w2, w3) ==
  IF h >= CRIT_DIST_3 /\ ~w3 THEN
    [fired |-> <<ALERT3>>, w1 |-> w1, w2 |-> w2, w3 |-> TRUE]
  ELSE IF h >= CRIT_DIST_2 /\ ~w2 THEN
    [fired |-> <<ALERT2>>, w1 |-> w1, w2 |-> TRUE, w3 |-> w3]
  ELSE IF h >= CRIT_DIST_1 /\ ~w1 THEN
    [fired |-> <<ALERT1>>, w1 |-> TRUE, w2 |-> w2, w3 |-> w3]
  ELSE IF h < CRIT_DIST_3 /\ w3 THEN
    [fired |-> <<CLEAR3>>, w1 |-> w1, w2 |-> w2, w3 |-> FALSE]
  ELSE IF h < CRIT_DIST_2 /\ w2 THEN
    [fired |-> <<CLEAR2>>, w1 |-> w1, w2 |-> FALSE, w3 |-> w3]
  ELSE IF h < CRIT_DIST_1 THEN
    [fired |-> <<CLEAR1>>, w1 |-> FALSE, w2 |-> w2, w3 |-> w3]
  ELSE
    [fired |-> <<>>, w1 |-> w1, w2 |-> w2, w3 |-> w3]

\* checkWaterHeight with the Clear2 branch missing
checkWaterHeightNoClear2(h, w1, w2, w3) ==
  IF h >= CRIT_DIST_3 /\ ~w3 THEN
    [fired |-> <<ALERT3>>, w1 |-> w1, w2 |-> w2, w3 |-> TRUE]
  ELSE IF h >= CRIT_DIST_2 /\ ~w2 THEN
    [fired |-> <<ALERT2>>, w1 |-> w1, w2 |-> TRUE, w3 |-> w3]
  ELSE IF h >= CRIT_DIST_1 /\ ~w1 THEN
    [fired |-> <<ALERT1>>, w1 |-> TRUE, w2 |-> w2, w3 |-> w3]
  ELSE IF h < CRIT_DIST_3 /\ w3 THEN
    [fired |-> <<CLEAR3>>, w1 |-> w1, w2 |-> w2, w3 |-> FALSE]
  ELSE IF h < CRIT_DIST_1 /\ w1 THEN
    [fired |-> <<CLEAR1>>, w1 |-> FALSE, w2 |-> w2, w3 |-> w3]
  ELSE
    [fired |-> <<>>, w1 |-> w1, w2 |-> w2, w3 |-> w3]

\* checkWaterHeight with the Clear3 branch resetting warning2Sent instead of
\* warning3Sent
checkWaterHeightWrongFlag(h, w1, w2, w3) ==
  IF h >= CRIT_DIST_3 /\ ~w3 THEN
    [fired |-> <<ALERT3>>, w1 |-> w1, w2 |-> w2, w3 |-> TRUE]
  ELSE IF h >= CRIT_DIST_2 /\ ~w2 THEN
    [fired |-> <<ALERT2>>, w1 |-> w1, w2 |-> TRUE, w3 |-> w3]
  ELSE IF h >= CRIT_DIST_1 /\ ~w1 THEN
    [fired |-> <<ALERT1>>, w1 |-> TRUE, w2 |-> w2, w3 |-> w3]
  ELSE IF h < CRIT_DIST_3 /\ w3 THEN
    [fired |-> <<CLEAR3>>, w1 |-> w1, w2 |-> FALSE, w3 |-> w3]
  ELSE IF h < CRIT_DIST_2 /\ w2 THEN
    [fired |-> <<CLEAR2>>, w1 |-> w1, w2 |-> FALSE, w3 |-> w3]
  ELSE IF h < CRIT_DIST_1 /\ w1 THEN
    [fired |-> <<CLEAR1>>, w1 |-> FALSE, w2 |-> w2, w3 |-> w3]
  ELSE
    [fired |-> <<>>, w1 |-> w1, w2 |-> w2, w3 |-> w3]

\* checkWaterHeight with the three clearing branches ahead of the alerts
checkWaterHeightClearFirst(h, w1, w2, w3) ==
  IF h < CRIT_DIST_3 /\ w3 THEN
    [fired |-> <<CLEAR3>>, w1 |-> w1, w2 |-> w2, w3 |-> FALSE]
  ELSE IF h < CRIT_DIST_2 /\ w2 THEN
    [fired |-> <<CLEAR2>>, w1 |-> w1, w2 |-> FALSE, w3 |-> w3]
  ELSE IF h < CRIT_DIST_1 /\ w1 THEN
    [fired |-> <<CLEAR1>>, w1 |-> FALSE, w2 |-> w2, w3 |-> w3]
  ELSE IF h >= CRIT_DIST_3 /\ ~w3 THEN
    [fired |-> <<ALERT3>>, w1 |-> w1, w2 |-> w2, w3 |-> TRUE]
  ELSE IF h >= CRIT_DIST_2 /\ ~w2 THEN
    [fired |-> <<ALERT2>>, w1 |-> w1, w2 |-> TRUE, w3 |-> w3]
  ELSE IF h >= CRIT_DIST_1 /\ ~w1 THEN
    [fired |-> <<ALERT1>>, w1 |-> TRUE, w2 |-> w2, w3 |-> w3]
  ELSE
    [fired |-> <<>>, w1 |-> w1, w2 |-> w2, w3 |-> w3]

\* checkWaterHeight with > for >= in the Alert1 branch
checkWaterHeightStrictAlert1(h, w1, w2, w3) ==
  IF h >= CRIT_DIST_3 /\ ~w3 THEN
    [fired |-> <<ALERT3>>, w1 |-> w1, w2 |-> w2, w3 |-> TRUE]
  ELSE IF h >= CRIT_DIST_2 /\ ~w2 THEN
    [fired |-> <<ALERT2>>, w1 |-> w1, w2 |-> TRUE, w3 |-> w3]
  ELSE IF h > CRIT_DIST_1 /\ ~w1 THEN
    [fired |-> <<ALERT1>>, w1 |-> TRUE, w2 |-> w2, w3 |-> w3]
  ELSE IF h < CRIT_DIST_3 /\ w3 THEN
    [fired |-> <<CLEAR3>>, w1 |-> w1, w2 |-> w2, w3 |-> FALSE]
  ELSE IF h < CRIT_DIST_2 /\ w2 THEN
    [fired |-> <<CLEAR2>>, w1 |-> w1, w2 |-> FALSE, w3 |-> w3]
  ELSE IF h < CRIT_DIST_1 /\ w1 THEN
    [fired |-> <<CLEAR1>>, w1 |-> FALSE, w2 |-> w2, w3 |-> w3]
  ELSE
    [fired |-> <<>>, w1 |-> w1, w2 |-> w2, w3 |-> w3]

\* checkWaterHeight with <= for < in the Clear1 branch
checkWaterHeightClearInclusive(h, w1, w2, w3) ==
  IF h >= CRIT_DIST_3 /\ ~w3 THEN
    [fired |-> <<ALERT3>>, w1 |-> w1, w2 |-> w2, w3 |-> TRUE]
  ELSE IF h >= CRIT_DIST_2 /\ ~w2 THEN
    [fired |-> <<ALERT2>>, w1 |-> w1, w2 |-> TRUE, w3 |-> w3]
  ELSE IF h >= CRIT_DIST_1 /\ ~w1 THEN
    [fired |-> <<ALERT1>>, w1 |-> TRUE, w2 |-> w2, w3 |-> w3]
  ELSE IF h < CRIT_DIST_3 /\ w3 THEN
    [fired |-> <<CLEAR3>>, w1 |-> w1, w2 |-> w2, w3 |-> FALSE]
  ELSE IF h < CRIT_DIST_2 /\ w2 THEN
    [fired |-> <<CLEAR2>>, w1 |-> w1, w2 |-> FALSE, w3 |-> w3]
  ELSE IF h <= CRIT_DIST_1 /\ w1 THEN
    [fired |-> <<CLEAR1>>, w1 |-> FALSE, w2 |-> w2, w3 |-> w3]
  ELSE
    [fired |-> <<>>, w1 |-> w1, w2 |-> w2, w3 |-> w3]

\* checkWaterHeight: the branch taken; fired is the sequence of message
\* codes of the transitions executed, w1..w3 the flags afterwards
checkWaterHeight(h, w1, w2, w3) ==
  IF h >= CRIT_DIST_3 /\ ~w3 THEN
    [fired |-> <<ALERT3>>, w1 |-> w1, w2 |-> w2, w3 |-> TRUE]
  ELSE IF h >= CRIT_DIST_2 /\ ~w2 THEN
    [fired |-> <<ALERT2>>, w1 |-> w1, w2 |-> TRUE, w3 |-> w3]
  ELSE IF h >= CRIT_DIST_1 /\ ~w1 THEN
    [fired |-> <<ALERT1>>, w1 |-> TRUE, w2 |-> w2, w3 |-> w3]
  ELSE IF h < CRIT_DIST_3 /\ w3 THEN
    [fired |-> <<CLEAR3>>, w1 |-> w1, w2 |-> w2, w3 |-> FALSE]
  ELSE IF h < CRIT_DIST_2 /\ w2 THEN
    [fired |-> <<CLEAR2>>, w1 |-> w1, w2 |-> FALSE, w3 |-> w3]
  ELSE IF h < CRIT_DIST_1 /\ w1 THEN
    [fired |-> <<CLEAR1>>, w1 |-> FALSE, w2 |-> w2, w3 |-> w3]
  ELSE
    [fired |-> <<>>, w1 |-> w1, w2 |-> w2, w3 |-> w3]

\* the periodic scheduler with dataSent left false after the upload
maybeUploadForgets(minute, ds) ==
  IF minute % PERIOD = 0 /\ ~ds THEN [upload |-> TRUE, dataSent |-> FALSE]
  ELSE IF minute % PERIOD # 0 THEN [upload |-> FALSE, dataSent |-> FALSE]
  ELSE [upload |-> FALSE, dataSent |-> ds]

\* the periodic scheduler without the test of dataSent
maybeUploadUnguarded(minute, ds) ==
  IF minute % PERIOD = 0 THEN [upload |-> TRUE, dataSent |-> TRUE]
  ELSE [upload |-> FALSE, dataSent |-> FALSE]

\* lines 374-381: the periodic scheduler, on the minute rtc.now() shows
maybeUpload(minute, ds) ==
  IF minute % PERIOD = 0 /\ ~ds THEN [upload |-> TRUE, dataSent |-> TRUE]
  ELSE IF minute % PERIOD # 0 THEN [upload |-> FALSE, dataSent |-> FALSE]
  ELSE [upload |-> FALSE, dataSent |-> ds]

\* line 387: the escalation test of an invalid cycle
FaultDue(cur, prev, fail) == cur - prev >= INTERVAL /\ fail

\* the escalation without its while (1): loop() returns and runs again
SensorFailureNoHalt ==
  [sent |-> <<sendingSMS(1, SENSOR_FAULT)>>, pc |-> "loop"]

\* lines 388-389: the message to the admin, then while (1)
SensorFailure == [sent |-> <<sendingSMS(1, SENSOR_FAULT)>>, pc |-> "halted"]

\* the clock failure without its while (1): setup() returns
SetupFailureNoHalt ==
  [sent |-> <<sendingSMS(1, CLOCK_FAULT)>>, pc |-> "loop"]

\* lines 336-339: the message to the admin, then while (1)
SetupFailure == [sent |-> <<sendingSMS(1, CLOCK_FAULT)>>, pc |-> "halted"]

\* lines 370-371: what a valid reading does to the fault timer
ResetTimer(cur) == [messureFail |-> FALSE, previousMillis |-> cur]

\* one transition of checkWaterHeight: broadcast, delay(10000), upload
TransitionMs == WarnAllMs + SETTLE_DELAY + UploadMs

RECURSIVE Broadcasts(_)
Broadcasts(codes) ==
  IF codes = <<>> THEN <<>>
  ELSE warnAll(Head(codes)) \o Broadcasts(Tail(codes))

RECURSIVE Toggle(_, _)
\* per threshold, whether its last message was an alert
Toggle(codes, o) ==
  IF codes = <<>> THEN o
  ELSE LET c == Head(codes)
       IN Toggle(Tail(codes),
                 IF c \in {ALERT1, ALERT2, ALERT3}
                 THEN [o EXCEPT ![c] = TRUE]
                 ELSE [o EXCEPT ![c - 3] = FALSE])

CountCode(msgs, code) == Len(SelectSeq(msgs, LAMBDA m : m[2] = code))

Min(a, b) == IF a <= b THEN a ELSE b

\* what reaches the modem, in the order of the calls: an SMS to entry i of
\* allowedNumbers with a code, or an HTTP upload of a kind
SmsEvents(msgs) == [k \in 1..Len(msgs) |-> <<"sms", msgs[k][1], msgs[k][2]>>]
UploadEvent(kind) == <<"upload", kind, 0>>

\* the body of a branch of checkWaterHeight: warnAll(code), delay(10000),
\* sendDataToServer()
TransitionEvents(code) ==
  SmsEvents(warnAll(code)) \o <<UploadEvent("transition")>>

RECURSIVE EventsOf(_)
EventsOf(codes) ==
  IF codes = <<>> THEN <<>>
  ELSE TransitionEvents(Head(codes)) \o EventsOf(Tail(codes))

(* ------------------------------- state --------------------------------- *)
VARIABLES
  pc,                 \* "setup", "loop" or "halted" (one of the while (1))
  now,                \* millis() at the start of the next step
  rtcStart,           \* what the RTC shows when millis() is 0
  warning1Sent, warning2Sent, warning3Sent,
  dataSent, messureFail,
  messuredHeigth, rawMessuredHeight, messuredWaterTemp,
  previousMillis,
  \* history of the run
  cycle,              \* kind of the last step
  currentMillis,      \* currentMillis of the last cycle
  fired,              \* message codes of the transitions of the last step
  sent,               \* messages handed to the modem by the last step
  ups,                \* uploads of the last step
  readMinute,         \* absolute RTC minute read by the last valid cycle
  open,               \* per threshold: an alert was sent and not yet cleared
  failSince,          \* currentMillis of the first invalid cycle of the run
  upBucket, upTotal, upPeriodic,  \* uploads in the bucket of the last upload
  perBucket,          \* bucket of the last periodic upload
  rtcFailed, looped, nSensorFault, nClockFault,
  events,             \* SMS and uploads of the last step, in call order
  steady,             \* consecutive valid cycles at the present level
  flips,              \* per threshold: changes of its flag in those cycles
  lastPing            \* what the pings of the last cycle returned

flags == <<warning1Sent, warning2Sent, warning3Sent>>
prog == <<warning1Sent, warning2Sent, warning3Sent, dataSent, messureFail,
          messuredHeigth, rawMessuredHeight, messuredWaterTemp, previousMillis>>
hist == <<cycle, currentMillis, fired, sent, ups, readMinute, open, failSince,
          upBucket, upTotal, upPeriodic, perBucket, rtcFailed, looped,
          nSensorFault, nClockFault, events, steady, flips, lastPing>>
vars == <<pc, now, rtcStart, prog, hist>>

\* rtc.now(): the absolute minute and the minute of the hour at millis() = t
ClockMinute(t) == (rtcStart + t) \div 60000
MinuteOfHour(t) == ClockMinute(t) % 60
Bucket(t) == ClockMinute(t) \div PERIOD

\* the part of the run that is followed
Early == previousMillis <= EarlyMillis
FollowValid == IF Early THEN now <= MaxMillis ELSE now <= ShortMillis
FollowInvalid ==
  IF Early THEN now <= MaxMillis
  ELSE now <= ShortMillis /\ now + PingPhaseMs - previousMillis <= RunMillis

\* the uploads counted so far in the bucket of the present time
UpBase ==
  IF upBucket = Bucket(now) THEN <<upBucket, upTotal, upPeriodic>>
  ELSE <<-1, 0, 0>>
PerBase == IF perBucket = Bucket(now) THEN perBucket ELSE -1

Upload(kind, t) == [kind |-> kind, bucket |-> Bucket(t + UploadAtMs)]

RECURSIVE CountUps(_, _)
\* <<bucket, total, periodic>> after the uploads u, from acc
CountUps(u, acc) ==
  IF u = <<>> THEN acc
  ELSE LET x == Head(u)
           same == x.bucket = acc[1]
           tot == IF same THEN acc[2] + 1 ELSE 1
           per == (IF same THEN acc[3] ELSE 0)
                  + (IF x.kind = "periodic" THEN 1 ELSE 0)
       IN CountUps(Tail(u), <<x.bucket, tot, per>>)

Init ==
  /\ pc = "setup"
  /\ now = 0
  /\ rtcStart \in RtcStarts
  /\ warning1Sent = FALSE /\ warning2Sent = FALSE /\ warning3Sent = FALSE
  /\ dataSent = FALSE /\ messureFail = FALSE
  /\ messuredHeigth = 0 /\ rawMessuredHeight = 0 /\ messuredWaterTemp = 0
  /\ previousMillis = 0
  /\ cycle = "none" /\ currentMillis = 0
  /\ fired = <<>> /\ sent = <<>> /\ ups = <<>>
  /\ readMinute = -1
  /\ open = [n \in 1..3 |-> FALSE]
  /\ failSince = -1
  /\ upBucket = -1 /\ upTotal = 0 /\ upPeriodic = 0 /\ perBucket = -1
  /\ rtcFailed = FALSE /\ looped = FALSE
  /\ nSensorFault = 0 /\ nClockFault = 0
  /\ events = <<>> /\ steady = 0 /\ flips = [n \in 1..3 |-> 0]
  /\ lastPing = 0

\* setup()
Setup ==
  /\ pc = "setup"
  /\ \E rtcBegin \in BOOLEAN :
       IF rtcBegin
       THEN /\ pc' = "loop"
            /\ sent' = <<>>
            /\ now' = RoundUp(now + SETUP_DELAY)
            /\ UNCHANGED <<rtcFailed, nClockFault>>
       ELSE /\ pc' = SetupFailure.pc
            /\ sent' = SetupFailure.sent
            /\ now' = RoundUp(now + SETUP_DELAY + SmsMs)
            /\ rtcFailed' = TRUE
            /\ nClockFault' = nClockFault
                                 + CountCode(SetupFailure.sent, CLOCK_FAULT)
  /\ events' = SmsEvents(sent')
  /\ cycle' = "none" /\ fired' = <<>> /\ ups' = <<>>
  /\ UNCHANGED <<rtcStart, prog, currentMillis, readMinute, open, failSince,
                 upBucket, upTotal, upPeriodic, perBucket, looped,
                 nSensorFault, steady, flips, lastPing>>

\* loop(), the branch of a valid reading (lines 349-381, 393)
LoopValid ==
  /\ pc = "loop" /\ FollowValid
  /\ \E r \in Readings :
       LET cur == now + PingPhaseMs
           h == calcWaterHeigth(r.raw)
           c == checkWaterHeight(h, warning1Sent, warning2Sent, warning3Sent)
           n == Len(c.fired)
           trUps == [k \in 1..n |->
                       Upload("transition", cur + (k - 1) * TransitionMs
                                            + WarnAllMs + SETTLE_DELAY)]
           t2 == cur + n * TransitionMs
           p == maybeUpload(MinuteOfHour(t2), dataSent)
           allUps == IF p.upload THEN Append(trUps, Upload("periodic", t2))
                     ELSE trUps
           cnt == CountUps(allUps, UpBase)
           tEnd == t2 + (IF p.upload THEN UploadMs ELSE 0) + LOOP_DELAY
           same == cycle = "valid" /\ h = messuredHeigth
           was == [k \in 1..3 |-> IF same THEN flips[k] ELSE 0]
           to == <<c.w1, c.w2, c.w3>>
       IN /\ SensorOk(r.raw, r.temp)
          /\ lastPing' = r.ping
          /\ events' = EventsOf(c.fired)
                         \o (IF p.upload THEN <<UploadEvent("periodic")>>
                             ELSE <<>>)
          /\ steady' = IF same THEN Min(steady + 1, SteadyCap) ELSE 1
          /\ flips' = [k \in 1..3 |->
                         Min(was[k] + (IF to[k] # flags[k] THEN 1 ELSE 0), 2)]
          /\ rawMessuredHeight' = r.raw
          /\ messuredHeigth' = h
          /\ messuredWaterTemp' = r.temp * 10
          /\ messureFail' = ResetTimer(cur).messureFail
          /\ previousMillis' = ResetTimer(cur).previousMillis
          /\ warning1Sent' = c.w1 /\ warning2Sent' = c.w2
          /\ warning3Sent' = c.w3
          /\ dataSent' = p.dataSent
          /\ now' = RoundUp(tEnd)
          /\ currentMillis' = cur
          /\ fired' = c.fired
          /\ sent' = Broadcasts(c.fired)
          /\ ups' = allUps
          /\ readMinute' = ClockMinute(t2)
          /\ open' = Toggle(c.fired, open)
          /\ upBucket' = cnt[1] /\ upTotal' = cnt[2] /\ upPeriodic' = cnt[3]
          /\ perBucket' = IF p.upload THEN Bucket(t2) ELSE PerBase
  /\ cycle' = "valid" /\ failSince' = -1 /\ looped' = TRUE
  /\ UNCHANGED <<pc, rtcStart, rtcFailed, nSensorFault, nClockFault>>

\* loop(), the escalation of an invalid reading (lines 349-367, 387-389)
LoopFault ==
  /\ pc = "loop" /\ FollowInvalid
  /\ \E r \in Readings :
       LET cur == now + PingPhaseMs
       IN /\ ~SensorOk(r.raw, r.temp)
          /\ FaultDue(cur, previousMillis, messureFail)
          /\ rawMessuredHeight' = r.raw
          /\ messuredHeigth' = calcWaterHeigth(r.raw)
          /\ messuredWaterTemp' = r.temp * 10
          /\ currentMillis' = cur
          /\ lastPing' = r.ping
          /\ now' = RoundUp(cur + SmsMs)
  /\ sent' = SensorFailure.sent
  /\ events' = SmsEvents(SensorFailure.sent)
  /\ steady' = 0 /\ flips' = [n \in 1..3 |-> 0]
  /\ pc' = SensorFailure.pc
  /\ nSensorFault' = nSensorFault + CountCode(SensorFailure.sent, SENSOR_FAULT)
  /\ cycle' = "fault" /\ fired' = <<>> /\ ups' = <<>> /\ looped' = TRUE
  /\ readMinute' = -1
  /\ upBucket' = UpBase[1] /\ upTotal' = UpBase[2] /\ upPeriodic' = UpBase[3]
  /\ perBucket' = PerBase
  /\ UNCHANGED <<rtcStart, warning1Sent, warning2Sent, warning3Sent, dataSent,
                 messureFail, previousMillis, open, failSince, rtcFailed,
                 nClockFault>>

\* loop() with previousMillis = currentMillis moved out of the valid
\* branch: an invalid reading restarts the fault timer too
LoopInvalidResets ==
  /\ pc = "loop" /\ FollowInvalid
  /\ \E r \in Readings :
       LET cur == now + PingPhaseMs
       IN /\ ~SensorOk(r.raw, r.temp)
          /\ ~FaultDue(cur, previousMillis, messureFail)
          /\ rawMessuredHeight' = r.raw
          /\ messuredHeigth' = calcWaterHeigth(r.raw)
          /\ messuredWaterTemp' = r.temp * 10
          /\ currentMillis' = cur
          /\ previousMillis' = cur
          /\ lastPing' = r.ping
          /\ failSince' = IF failSince = -1 THEN cur ELSE failSince
          /\ now' = RoundUp(cur + LOOP_DELAY)
  /\ messureFail' = TRUE
  /\ events' = <<>> /\ steady' = 0 /\ flips' = [n \in 1..3 |-> 0]
  /\ cycle' = "invalid" /\ fired' = <<>> /\ sent' = <<>> /\ ups' = <<>>
  /\ looped' = TRUE
  /\ readMinute' = -1
  /\ upBucket' = UpBase[1] /\ upTotal' = UpBase[2] /\ upPeriodic' = UpBase[3]
  /\ perBucket' = PerBase
  /\ UNCHANGED <<pc, rtcStart, warning1Sent, warning2Sent, warning3Sent,
                 dataSent, open, rtcFailed, nSensorFault, nClockFault>>

\* loop(), an invalid reading that does not escalate (lines 349-367, 390-393)
LoopInvalid ==
  /\ pc = "loop" /\ FollowInvalid
  /\ \E r \in Readings :
       LET cur == now + PingPhaseMs
       IN /\ ~SensorOk(r.raw, r.temp)
          /\ ~FaultDue(cur, previousMillis, messureFail)
          /\ rawMessuredHeight' = r.raw
          /\ messuredHeigth' = calcWaterHeigth(r.raw)
          /\ messuredWaterTemp' = r.temp * 10
          /\ currentMillis' = cur
          /\ lastPing' = r.ping
          /\ failSince' = IF failSince = -1 THEN cur ELSE failSince
          /\ now' = RoundUp(cur + LOOP_DELAY)
  /\ messureFail' = TRUE
  /\ events' = <<>> /\ steady' = 0 /\ flips' = [n \in 1..3 |-> 0]
  /\ cycle' = "invalid" /\ fired' = <<>> /\ sent' = <<>> /\ ups' = <<>>
  /\ looped' = TRUE
  /\ readMinute' = -1
  /\ upBucket' = UpBase[1] /\ upTotal' = UpBase[2] /\ upPeriodic' = UpBase[3]
  /\ perBucket' = PerBase
  /\ UNCHANGED <<pc, rtcStart, warning1Sent, warning2Sent, warning3Sent,
                 dataSent, previousMillis, open, rtcFailed, nSensorFault,
                 nClockFault>>

\* while (1); of setup() and loop(): only time passes
Halted ==
  /\ pc = "halted" /\ now <= MaxMillis
  /\ now' = now + Tick
  /\ cycle' = "none" /\ fired' = <<>> /\ sent' = <<>> /\ ups' = <<>>
  /\ events' = <<>>
  /\ readMinute' = -1
  /\ upBucket' = UpBase[1] /\ upTotal' = UpBase[2] /\ upPeriodic' = UpBase[3]
  /\ perBucket' = PerBase
  /\ UNCHANGED <<pc, rtcStart, prog, currentMillis, open, failSince,
                 rtcFailed, looped, nSensorFault, nClockFault, steady, flips,
                 lastPing>>

Next == Setup \/ LoopValid \/ LoopFault \/ LoopInvalid \/ Halted

Spec == Init /\ [][Next]_vars

(* =============================== claims ================================ *)
Flag(n) == CASE n = 1 -> warning1Sent [] n = 2 -> warning2Sent
             [] OTHER -> warning3Sent
Crit(n) == CASE n = 1 -> CRIT_DIST_1 [] n = 2 -> CRIT_DIST_2
             [] OTHER -> CRIT_DIST_3
Thresholds == 1..3
\* the message codes in msgs, and the messages of msgs that carry code c
CodesOf(msgs) == { msgs[k][2] : k \in 1..Len(msgs) }
WithCode(msgs, c) == SelectSeq(msgs, LAMBDA m : m[2] = c)
\* one message with code c to every entry of allowedNumbers, in list order
ExpectedBroadcast(c) == [i \in 1..SIZE_OF_ALLOWED_NUMBERS |-> <<i, c>>]
PeriodicUps(u) == SelectSeq(u, LAMBDA x : x.kind = "periodic")

\* C1: a cycle with a valid reading fires at most one threshold transition:
\* at most one of the codes Alert1..Clear3 is emitted and at most one of
\* warning1Sent, warning2Sent, warning3Sent changes value.
C1_AtMostOneTransition ==
  [][cycle' = "valid" =>
       /\ Len(fired') <= 1
       /\ Cardinality(CodesOf(sent') \cap (ALERT1..CLEAR3)) <= 1
       /\ Cardinality({n \in Thresholds : Flag(n)' # Flag(n)}) <= 1]_vars

\* C1 witness: the level is past all three thresholds with no flag set
\* before, and the cycle fired Alert3 alone.
C1_Witness ==
  /\ cycle = "valid" /\ fired = <<ALERT3>>
  /\ messuredHeigth >= CRIT_DIST_3
  /\ warning3Sent /\ ~warning2Sent /\ ~warning1Sent

\* C2: the messages of a threshold alternate, starting with an alert:
\* Alert_n is emitted only when warning_nSent is false, no alert of n is
\* open and the level is >= CRIT_DIST_n; Clear_n only when warning_nSent is
\* true, an alert of n is open and the level is < CRIT_DIST_n.
C2_Alternation ==
  [][\A k \in 1..Len(fired') :
       LET c == fired'[k]
       IN /\ c \in ALERT1..ALERT3 =>
               ~open[c] /\ ~Flag(c) /\ messuredHeigth' >= Crit(c)
          /\ c \in CLEAR1..CLEAR3 =>
               open[c - 3] /\ Flag(c - 3) /\ messuredHeigth' < Crit(c - 3)]_vars

\* C2 witness: Clear1 is emitted for an alert that was open.
C2_Witness ==
  /\ cycle = "valid" /\ fired = <<CLEAR1>>
  /\ ~open[1] /\ ~warning1Sent /\ messuredHeigth < CRIT_DIST_1

\* C3 as stated: after every cycle with a valid reading each flag that is
\* set has the level at or past its threshold.
C3_ActiveOnlyAtOrPast ==
  cycle = "valid" =>
    \A n \in Thresholds : Flag(n) => messuredHeigth >= Crit(n)

\* C3 amended: after a cycle with a valid reading that fired no transition
\* each flag that is set has the level at or past its threshold.
C3_ActiveOnlyAtOrPastWhenQuiet ==
  (cycle = "valid" /\ fired = <<>>) =>
    \A n \in Thresholds : Flag(n) => messuredHeigth >= Crit(n)

\* C3 witness: a quiet valid cycle with alert 1 active at the threshold.
C3_Witness ==
  /\ cycle = "valid" /\ fired = <<>>
  /\ warning1Sent /\ ~warning2Sent /\ messuredHeigth = CRIT_DIST_1

\* C4 as stated: SensorFault is emitted at most once, only at a cycle at
\* least INTERVAL after the first invalid reading of the run, and no invalid
\* cycle that late passes without it.
C4_FaultAtFirstInvalidPlusInterval ==
  /\ nSensorFault <= 1
  /\ cycle = "fault" => currentMillis >= failSince + INTERVAL
  /\ cycle = "invalid" => currentMillis < failSince + INTERVAL

\* C5 as stated: a valid reading resets the fault timer and no SensorFault
\* has been sent when it is read, and a SensorFault is sent only after a run
\* of invalid readings that lasted the full INTERVAL.
C5_ResetAndFullInterval ==
  /\ cycle = "valid" =>
       ~messureFail /\ previousMillis = currentMillis /\ nSensorFault = 0
  /\ nSensorFault > 0 => currentMillis - failSince >= INTERVAL

\* C6: once SensorFault has been emitted nothing is sent or uploaded and
\* the alert flags, the fault timer and dataSent never change again.
C6_HaltedAfterSensorFault ==
  [][nSensorFault > 0 =>
       /\ sent' = <<>> /\ ups' = <<>> /\ fired' = <<>>
       /\ nSensorFault' = nSensorFault /\ nClockFault' = nClockFault
       /\ UNCHANGED <<warning1Sent, warning2Sent, warning3Sent, messureFail,
                      previousMillis, dataSent>>]_vars

\* C6 witness: time has passed in the halted state after the SensorFault.
C6_Witness ==
  /\ nSensorFault = 1 /\ pc = "halted" /\ cycle = "none"
  /\ now > currentMillis + Tick

\* C7: when the clock fails to initialize ClockFault is emitted exactly
\* once and the station halts before the loop: no cycle, transition, upload
\* or other message; when the clock initializes ClockFault is never emitted.
C7_ClockFault ==
  /\ rtcFailed =>
       /\ pc = "halted" /\ nClockFault = 1 /\ ~looped
       /\ CodesOf(sent) \subseteq {CLOCK_FAULT}
       /\ fired = <<>> /\ ups = <<>> /\ upTotal = 0 /\ nSensorFault = 0
       /\ ~warning1Sent /\ ~warning2Sent /\ ~warning3Sent /\ ~dataSent
  /\ ~rtcFailed => nClockFault = 0 /\ CLOCK_FAULT \notin CodesOf(sent)

\* C7 witness: the clock failed and time has passed in the halted state.
C7_Witness == rtcFailed /\ sent = <<>> /\ now >= 8 * Tick

\* C8 as stated: every code emitted goes once to every entry of the
\* contact list, in list order.
C8_EveryCodeToAll ==
  \A c \in CodesOf(sent) : WithCode(sent, c) = ExpectedBroadcast(c)

\* C8 amended: Alert1-3 and Clear1-3 go once to every entry of the contact
\* list, in list order; SensorFault and ClockFault go once, to the first
\* entry only.
C8_AlertsToAllFaultsToFirst ==
  /\ \A c \in CodesOf(sent) :
       IF c \in ALERT1..CLEAR3
       THEN WithCode(sent, c) = ExpectedBroadcast(c)
       ELSE WithCode(sent, c) = << <<1, c>> >>
  /\ \A k \in 1..Len(fired) : fired[k] \in CodesOf(sent)
  /\ cycle = "fault" => SENSOR_FAULT \in CodesOf(sent)

\* C8 witness: the SensorFault notification, one message to the first entry.
C8_Witness == cycle = "fault" /\ sent = << <<1, SENSOR_FAULT>> >>

\* C9 as stated: at most one upload, periodic or bundled with a
\* transition, per bucket.
C9_OneUploadPerBucket == upTotal <= 1

\* C9 amended: at most one periodic upload per bucket; the uploads bundled
\* with transitions come on top of it.
C9_OnePeriodicUploadPerBucket == upPeriodic <= 1

\* C9 witness: a bucket with its periodic upload and a bundled one.
C9_Witness == upPeriodic = 1 /\ upTotal >= 2

\* C10: after a periodic upload, a valid cycle whose clock minute lies in
\* the bucket of that upload performs no periodic upload.
C10_PeriodicIdempotent ==
  [][(cycle' = "valid" /\ perBucket # -1
        /\ readMinute' \div PERIOD = perBucket) =>
       PeriodicUps(ups') = <<>>]_vars

\* C10 witness: a valid cycle in the even minute of the bucket that already
\* has its periodic upload, and it uploads nothing.
C10_Witness ==
  /\ cycle = "valid" /\ readMinute \div PERIOD = perBucket
  /\ readMinute % PERIOD = 0 /\ dataSent /\ ups = <<>>

\* C11 as stated: after a cycle with a valid reading the bucket of the
\* clock minute it read has its periodic upload (performed in this cycle
\* when the bucket had none), and dataSent is set only for an upload of
\* that bucket.
C11_UploadInEveryObservedBucket ==
  cycle = "valid" =>
    /\ perBucket = readMinute \div PERIOD
    /\ dataSent => perBucket = readMinute \div PERIOD

\* the threshold a code of Alert1..Clear3 belongs to
ThresholdOf(c) == IF c <= ALERT3 THEN c ELSE c - 3
\* what the modem sees of one transition with code c: the broadcast to the
\* whole list in list order, then the upload
BroadcastThenUpload(c) ==
  [k \in 1..(SIZE_OF_ALLOWED_NUMBERS + 1) |->
     IF k <= SIZE_OF_ALLOWED_NUMBERS THEN <<"sms", k, c>>
     ELSE <<"upload", "transition", 0>>]
SmsIn(ev) == SelectSeq(ev, LAMBDA e : e[1] = "sms")
BundledIn(ev) == SelectSeq(ev, LAMBDA e : e[1] = "upload" /\ e[2] = "transition")
PeriodicIn(ev) == SelectSeq(ev, LAMBDA e : e[1] = "upload" /\ e[2] = "periodic")

\* C12: a cycle that fires a transition with code c of threshold n hands the
\* modem one broadcast of c followed by one out-of-band upload and nothing
\* else of the transition, flips flag n and leaves the other two flags as
\* they were; the fault timer is what the valid reading made it and dataSent
\* and the periodic upload are what the scheduler makes of the dataSent of
\* before the cycle.
C12_TransitionEffect ==
  [][(cycle' = "valid" /\ fired' # <<>>) =>
       LET c == fired'[1]
           n == ThresholdOf(c)
           even == readMinute' % PERIOD = 0
       IN /\ Len(fired') = 1 /\ c \in ALERT1..CLEAR3
          /\ SubSeq(events', 1, SIZE_OF_ALLOWED_NUMBERS + 1)
               = BroadcastThenUpload(c)
          /\ Len(SmsIn(events')) = SIZE_OF_ALLOWED_NUMBERS
          /\ Len(BundledIn(events')) = 1
          /\ flags'[n] = (c <= ALERT3) /\ flags[n] = ~(c <= ALERT3)
          /\ \A m \in Thresholds \ {n} : flags'[m] = flags[m]
          /\ messureFail' = FALSE /\ previousMillis' = currentMillis'
          /\ (PeriodicIn(events') # <<>>) = (even /\ ~dataSent)
          /\ dataSent' = IF even THEN TRUE ELSE FALSE]_vars

\* C12 witness: Clear3 fired with the flags of thresholds 1 and 2 set and
\* dataSent set from an earlier cycle, in an even minute: the flags 1 and 2
\* and dataSent are still set and the cycle made the bundled upload only.
C12_Witness ==
  /\ cycle = "valid" /\ fired = <<CLEAR3>>
  /\ warning1Sent /\ warning2Sent /\ ~warning3Sent
  /\ dataSent /\ events = BroadcastThenUpload(CLEAR3)

\* a step that ran loop() once
Sampled == cycle \in {"valid", "invalid", "fault"}

\* C13 as stated: a cycle is treated as valid exactly when the averaged
\* distance lies in the closed range MIN_DIST..MAX_DIST, whatever the
\* temperature probe returns.
C13_ValidIffInClosedRange ==
  Sampled => (cycle = "valid" <=> rawMessuredHeight \in MIN_DIST..MAX_DIST)

\* C13 amended: a cycle is treated as valid (fault timer reset, threshold
\* check and scheduler run) exactly when the averaged distance lies strictly
\* between MIN_DIST and MAX_DIST and the temperature probe did not return
\* the disconnected sentinel; every other cycle is treated as invalid
\* (messureFail set or escalation, no threshold check, no clock read).
C13_ValidIffInOpenRangeAndProbe ==
  Sampled =>
    /\ cycle = "valid" <=>
         /\ rawMessuredHeight > MIN_DIST /\ rawMessuredHeight < MAX_DIST
         /\ messuredWaterTemp # DEVICE_DISCONNECTED_C * 10
    /\ cycle = "valid" =>
         ~messureFail /\ previousMillis = currentMillis /\ readMinute # -1
    /\ cycle # "valid" =>
         /\ fired = <<>> /\ ups = <<>> /\ readMinute = -1
         /\ previousMillis < currentMillis
         /\ cycle = "invalid" => messureFail

\* C13 witness: a cycle whose distance lies inside the range with the probe
\* disconnected, treated as invalid.
C13_Witness ==
  /\ cycle = "invalid" /\ messureFail
  /\ rawMessuredHeight \in (MIN_DIST + 1)..(MAX_DIST - 1)
  /\ messuredWaterTemp = DEVICE_DISCONNECTED_C * 10

\* the order in which the transitions are tried
PriorityOrder == <<ALERT3, ALERT2, ALERT1, CLEAR3, CLEAR2, CLEAR1>>
\* the condition of the transition with code c at level h under flags f
Pending(c, h, f) ==
  IF c <= ALERT3 THEN h >= Crit(c) /\ ~f[c]
  ELSE h < Crit(c - 3) /\ f[c - 3]
\* the positions of PriorityOrder whose conditions hold
PendingAt(h, f) ==
  {k \in 1..Len(PriorityOrder) : Pending(PriorityOrder[k], h, f)}
First(S) == CHOOSE k \in S : \A j \in S : k <= j

\* C14: a valid cycle fires the first transition of the order Alert3,
\* Alert2, Alert1, Clear3, Clear2, Clear1 whose condition holds for the new
\* level and the flags of before the cycle, and none when no condition
\* holds; so with the level at or past CRIT_DIST_3 the cycles fire Alert3
\* with no flag set, then Alert2, then Alert1.
C14_PriorityOrder ==
  [][cycle' = "valid" =>
       LET pend == PendingAt(messuredHeigth', flags)
       IN /\ fired' = IF pend = {} THEN <<>>
                      ELSE <<PriorityOrder[First(pend)]>>
          /\ messuredHeigth' >= CRIT_DIST_3 =>
               /\ flags = <<FALSE, FALSE, FALSE>> => fired' = <<ALERT3>>
               /\ flags = <<FALSE, FALSE, TRUE>> => fired' = <<ALERT2>>
               /\ flags = <<FALSE, TRUE, TRUE>> => fired' = <<ALERT1>>]_vars

\* C14 witness: Alert2 fired at a level between CRIT_DIST_2 and CRIT_DIST_3
\* with warning3Sent set, which is still set: Clear3 was due and waits.
C14_Witness ==
  /\ cycle = "valid" /\ fired = <<ALERT2>>
  /\ messuredHeigth >= CRIT_DIST_2 /\ messuredHeigth < CRIT_DIST_3
  /\ warning3Sent /\ warning2Sent

\* C15: a valid cycle fires no transition (no SMS, no bundled upload, no
\* flag changed) if and only if before it every flag agrees with the new
\* level, warning_nSent = (messuredHeigth >= CRIT_DIST_n); when some flag
\* disagrees a transition fires, with its SMS, its upload and a flag changed.
C15_QuietIffAgree ==
  [][cycle' = "valid" =>
       LET agree == \A n \in Thresholds :
                      Flag(n) = (messuredHeigth' >= Crit(n))
           quiet == /\ fired' = <<>> /\ sent' = <<>>
                    /\ SmsIn(events') = <<>> /\ BundledIn(events') = <<>>
                    /\ flags' = flags
           loud == /\ fired' # <<>> /\ sent' # <<>>
                   /\ BundledIn(events') # <<>> /\ flags' # flags
       IN /\ quiet <=> agree
          /\ loud <=> ~agree]_vars

\* C15 witness: a quiet valid cycle at the level CRIT_DIST_2 exactly, with
\* the flags 1 and 2 set and flag 3 not.
C15_Witness ==
  /\ cycle = "valid" /\ fired = <<>> /\ SmsIn(events) = <<>>
  /\ messuredHeigth = CRIT_DIST_2
  /\ warning1Sent /\ warning2Sent /\ ~warning3Sent

\* C16: a cycle with an invalid reading that does not escalate sends no SMS
\* and makes no upload, fires no transition, leaves warning1Sent,
\* warning2Sent, warning3Sent, dataSent and previousMillis as they were and
\* the station running; messureFail is true after it.
C16_InvalidCycleSuspends ==
  [][cycle' = "invalid" =>
       /\ sent' = <<>> /\ ups' = <<>> /\ events' = <<>> /\ fired' = <<>>
       /\ UNCHANGED <<warning1Sent, warning2Sent, warning3Sent, dataSent,
                      previousMillis, pc>>
       /\ upTotal' <= upTotal
       /\ messureFail']_vars

\* C16 witness: an invalid cycle, not the first of its run, with an alert
\* flag and dataSent set and the timer of an earlier valid reading.
C16_Witness ==
  /\ cycle = "invalid" /\ messureFail /\ pc = "loop"
  /\ warning3Sent /\ dataSent
  /\ previousMillis > 0 /\ failSince < currentMillis

\* every flag agrees with the level
Settled == \A n \in Thresholds : Flag(n) = (messuredHeigth >= Crit(n))

\* C17: over consecutive valid cycles at one level no flag changes more
\* than once, after the third of them every flag agrees with the level,
\* warning_nSent = (messuredHeigth >= CRIT_DIST_n), and from the fourth on
\* no transition fires, no SMS is sent and no bundled upload is made.
C17_ConvergesAndStays ==
  cycle = "valid" =>
    /\ \A n \in Thresholds : flips[n] <= 1
    /\ steady >= 3 => Settled
    /\ steady > 3 =>
         /\ fired = <<>> /\ sent = <<>>
         /\ SmsIn(events) = <<>> /\ BundledIn(events) = <<>>

\* C17 witness: the fourth valid cycle at one level, quiet, after each of
\* the three flags changed once in the first three.
C17_Witness ==
  /\ cycle = "valid" /\ steady > 3 /\ fired = <<>>
  /\ \A n \in Thresholds : flips[n] = 1

\* C18 as stated: with the PING_COUNT pings of a cycle in 0..MAX_DIST the
\* averaged distance is the floor of their sum divided by PING_COUNT and
\* lies in 0..MAX_DIST: the sum does not leave the range of int.
C18_AverageIsFloorOfSum ==
  (Sampled /\ lastPing \in 0..MAX_DIST) =>
    /\ rawMessuredHeight = (PING_COUNT * lastPing) \div PING_COUNT
    /\ rawMessuredHeight \in 0..MAX_DIST

====
